---------------------------- MODULE Spec2Model ----------------------------
(***************************************************************************)
(* Model of the pngme chunk codec: src/chunk_type.rs (ChunkType) and       *)
(* src/chunk.rs (Chunk).                                                   *)
(*                                                                         *)
(* Numbers.  u32 and usize values are written as two digits <<hi, lo>> in  *)
(* base 2^16 (value hi * 2^16 + lo), because lengths of 2^32 and more and  *)
(* 32-bit checksums do not fit the signed 32-bit integers of TLC.  A u32   *)
(* has hi < 2^16; a usize (64-bit target) has no such limit here.          *)
(*                                                                         *)
(* Byte vectors.  A Vec<u8> / &[u8] is written run-length encoded: a       *)
(* sequence of runs <<byte, count>>, count a non-zero two-digit number,    *)
(* adjacent runs holding different bytes.  Every vector has exactly one    *)
(* such form, so equality of vectors is equality of their forms.           *)
(***************************************************************************)
EXTENDS Naturals, Sequences, FiniteSets

(* ------------------------------ numbers ------------------------------- *)

Base == 256 * 256

Zero == <<0, 0>>
One == <<0, 1>>

\* a small natural number as a two-digit number
Num(n) == <<n \div Base, n % Base>>

Add(a, b) == <<a[1] + b[1] + ((a[2] + b[2]) \div Base), (a[2] + b[2]) % Base>>

Leq(a, b) == a[1] < b[1] \/ (a[1] = b[1] /\ a[2] <= b[2])

\* a - b, for b <= a
Sub(a, b) ==
  IF a[2] >= b[2] THEN <<a[1] - b[1], a[2] - b[2]>>
  ELSE <<a[1] - b[1] - 1, (a[2] + Base) - b[2]>>

Half(a) == <<a[1] \div 2, (a[2] \div 2) + ((a[1] % 2) * (Base \div 2))>>

\* `x as u32` for a usize x: the low 32 bits
as_u32(x) == <<x[1] % Base, x[2]>>

\* u32::to_le_bytes: the four bytes, least significant first
to_le_bytes(x) == <<x[2] % 256, x[2] \div 256, x[1] % 256, x[1] \div 256>>

\* u32::to_be_bytes
to_be_bytes(x) == <<x[1] \div 256, x[1] % 256, x[2] \div 256, x[2] % 256>>

\* u32::from_be_bytes
from_be_bytes(b) == <<(b[1] * 256) + b[2], (b[3] * 256) + b[4]>>

\* (b as u32) << shift, for a byte b and shift in {0, 8, 16, 24}
shl(b, shift) ==
  IF shift = 24 THEN <<b * 256, 0>>
  ELSE IF shift = 16 THEN <<b, 0>>
  ELSE IF shift = 8 THEN <<0, b * 256>>
  ELSE <<0, b>>

RECURSIVE BitAnd(_, _)
\* a & b on natural numbers
BitAnd(a, b) ==
  IF a = 0 \/ b = 0 THEN 0
  ELSE (2 * BitAnd(a \div 2, b \div 2)) + ((a % 2) * (b % 2))

RECURSIVE XorBits(_, _, _)
\* a ^ b on numbers below 2^w, w a power of two: the upper and the lower
\* half of the bits are combined separately
XorBits(a, b, w) ==
  IF a = 0 THEN b
  ELSE IF b = 0 THEN a
  ELSE IF w = 1 THEN (a + b) % 2
  ELSE LET h == w \div 2
       IN (XorBits(a \div (2 ^ h), b \div (2 ^ h), h) * (2 ^ h))
          + XorBits(a % (2 ^ h), b % (2 ^ h), h)

\* a ^ b on numbers below 2^16
BitXor(a, b) == XorBits(a, b, 16)

Xor32(x, y) == <<BitXor(x[1], y[1]), BitXor(x[2], y[2])>>

(* ---------------------------- byte vectors ---------------------------- *)

RECURSIVE VecLen(_)
\* Vec::len / slice::len
VecLen(v) == IF v = <<>> THEN Zero ELSE Add(v[1][2], VecLen(Tail(v)))

\* v followed by w (Vec::extend_from_slice, Vec::extend)
Cat(v, w) ==
  IF v = <<>> THEN w
  ELSE IF w = <<>> THEN v
  ELSE IF v[Len(v)][1] = w[1][1]
       THEN SubSeq(v, 1, Len(v) - 1)
            \o <<<<w[1][1], Add(v[Len(v)][2], w[1][2])>>>>
            \o Tail(w)
       ELSE v \o w

RECURSIVE Take(_, _)
\* the first n bytes of v (all of v when it is shorter)
Take(v, n) ==
  IF n = Zero \/ v = <<>> THEN <<>>
  ELSE IF Leq(v[1][2], n) THEN <<v[1]>> \o Take(Tail(v), Sub(n, v[1][2]))
  ELSE <<<<v[1][1], n>>>>

RECURSIVE Drop(_, _)
\* v without its first n bytes
Drop(v, n) ==
  IF n = Zero \/ v = <<>> THEN v
  ELSE IF Leq(v[1][2], n) THEN Drop(Tail(v), Sub(n, v[1][2]))
  ELSE <<<<v[1][1], Sub(v[1][2], n)>>>> \o Tail(v)

\* whether the range a..b is accepted by slice indexing: a <= b <= len,
\* anything else panics
InRange(v, a, b) == Leq(a, b) /\ Leq(b, VecLen(v))

\* v[a..b], for a range that is accepted
Slice(v, a, b) == Take(Drop(v, a), Sub(b, a))

RECURSIVE FromSeq(_)
\* the vector holding the bytes of the sequence s
FromSeq(s) == IF s = <<>> THEN <<>> ELSE Cat(<<<<s[1], One>>>>, FromSeq(Tail(s)))

RECURSIVE ToSeq(_)
\* the bytes of a short vector as a sequence (an array such as [u8; 4])
ToSeq(v) ==
  IF v = <<>> THEN <<>>
  ELSE <<v[1][1]>> \o ToSeq(Drop(v, One))

\* n copies of the byte b
Fill(b, n) == IF n = Zero THEN <<>> ELSE <<<<b, n>>>>

(* ------------------------- CRC-32 (ISO-HDLC) -------------------------- *)
(* Crc::<u32>::new(&CRC_32_ISO_HDLC): reflected polynomial 0xEDB88320,     *)
(* initial register 0xFFFFFFFF, final xor 0xFFFFFFFF.                      *)

Poly == <<60856, 33568>>
AllOnes == <<65535, 65535>>

Shr1(x) == <<x[1] \div 2, (x[2] \div 2) + ((x[1] % 2) * (Base \div 2))>>

Shr8(x) == <<x[1] \div 256, (x[2] \div 256) + ((x[1] % 256) * 256)>>

\* one shift of the register
BitStep(x) == IF x[2] % 2 = 1 THEN Xor32(Shr1(x), Poly) ELSE Shr1(x)

RECURSIVE BitSteps(_, _)
\* k shifts of the register
BitSteps(x, k) == IF k = 0 THEN x ELSE BitStep(BitSteps(x, k - 1))

\* the table of the byte-wise algorithm: eight shifts of each byte
CrcTable == [i \in 0..255 |-> BitSteps(<<0, i>>, 8)]

\* the register after one more input byte
ByteStep(x, b) == Xor32(CrcTable[BitXor(x[2] % 256, b)], Shr8(x))

\* Coefficient i (0..31) of a register read as a polynomial: the register
\* is reflected, so its top bit is the coefficient of X^0.
Coef(x, i) ==
  IF i < 16 THEN (x[1] \div (2 ^ (15 - i))) % 2 ELSE (x[2] \div (2 ^ (31 - i))) % 2

\* x * X^h for h in {1, 2, 4, 8, 16}: h shifts, eight at a time by the table
Shift(x, h) ==
  IF h = 16 THEN ByteStep(ByteStep(x, 0), 0)
  ELSE IF h = 8 THEN ByteStep(x, 0)
  ELSE BitSteps(x, h)

RECURSIVE MulPart(_, _, _, _)
\* (a_i X^i + ... + a_(i+w-1) X^(i+w-1)) * b for q = b * X^i, w a power of
\* two: the two halves of the coefficients are multiplied separately
MulPart(a, q, i, w) ==
  IF q = Zero THEN Zero
  ELSE IF w = 1 THEN (IF Coef(a, i) = 1 THEN q ELSE Zero)
  ELSE LET h == w \div 2
       IN Xor32(MulPart(a, q, i, h), MulPart(a, Shift(q, h), i + h, h))

\* product of two registers as polynomials modulo the CRC polynomial
MulMod(a, b) == IF a = Zero THEN Zero ELSE MulPart(a, b, 0, 32)

\* the values a register takes
Reg == Nat \X Nat

\* A run of bytes maps the register x to x * p[2] + p[1], with
\* p == <<register the run reaches from the zero register, X^(8 * length)>>:
\* feeding one byte b is x |-> x * X^8 + ByteStep(Zero, b).
\* The run p followed by the run q:
Then(p, q) == <<Xor32(MulMod(p[1], q[2]), q[1]), MulMod(p[2], q[2])>>

\* bit i (from 0) of the two-digit number n
Bit(n, i) == IF i < 16 THEN (n[2] \div (2 ^ i)) % 2 ELSE (n[1] \div (2 ^ (i - 16))) % 2

RECURSIVE BitLen(_)
\* the number of bits of n
BitLen(n) == IF n = Zero THEN 0 ELSE 1 + BitLen(Half(n))

\* the run of n bytes b: run[i, acc, dbl] holds acc = the run of
\* (n mod 2^i) bytes and dbl = the run of 2^i bytes
RunPair(b, n) ==
  LET len == BitLen(n)
      run[i \in 0..len, acc \in Reg \X Reg, dbl \in Reg \X Reg] ==
        IF i = len THEN acc
        ELSE run[i + 1, IF Bit(n, i) = 1 THEN Then(acc, dbl) ELSE acc, Then(dbl, dbl)]
  IN run[0, <<Zero, <<32768, 0>>>>, <<ByteStep(Zero, b), <<128, 0>>>>]

\* the register after a run of n bytes b
RunStep(x, b, n) ==
  IF n = One THEN ByteStep(x, b)
  ELSE LET j == RunPair(b, n) IN Xor32(MulMod(x, j[2]), j[1])

\* CRC.checksum(bytes): feed[k, x] holds x = the register after k runs of v
checksum(v) ==
  LET feed[k \in 0..Len(v), x \in Reg] ==
        IF k = Len(v) THEN x
        ELSE feed[k + 1, RunStep(x, v[k + 1][1], v[k + 1][2])]
  IN Xor32(feed[0, AllOnes], AllOnes)

(* ------------------------- results of operations ---------------------- *)
(* Result<T> values and the third outcome of a call, a panic (the thread   *)
(* unwinds, no value reaches the caller); Option values.                   *)

Ok(v) == [tag |-> "Ok", val |-> v]
Err(m) == [tag |-> "Err", msg |-> m]
Panic == [tag |-> "Panic"]
None == [tag |-> "None"]
Some(v) == [tag |-> "Some", val |-> v]

(* ------------------------------ ChunkType ----------------------------- *)

\* ChunkType::bytes
bytes(ct) == <<ct.ancillary, ct.private, ct.reserved, ct.safe_to_copy>>

\* ChunkType::check_property_bit: byte & 32 == 0
check_property_bit(byte) == BitAnd(byte, 32) = 0

is_critical(ct) == check_property_bit(ct.ancillary)

is_public(ct) == check_property_bit(ct.private)

is_reserved_bit_valid(ct) == check_property_bit(ct.reserved)

\* the same query as is_safe_to_copy with the negation left out
is_safe_to_copy_plain(ct) == check_property_bit(ct.safe_to_copy)

is_safe_to_copy(ct) == ~check_property_bit(ct.safe_to_copy)

is_valid(ct) == is_reserved_bit_valid(ct)

\* impl TryFrom<[u8; 4]> for ChunkType: never fails
ChunkType_try_from(b) ==
  Ok([ancillary |-> b[1], private |-> b[2], reserved |-> b[3], safe_to_copy |-> b[4]])

\* char::is_alphabetic (the Unicode property Alphabetic) on the code points
\* below 256: the ASCII letters, U+00AA, U+00B5, U+00BA and the Latin-1
\* letters U+00C0..U+00FF without the signs U+00D7 and U+00F7
is_alphabetic(c) ==
  \/ c \in 65..90
  \/ c \in 97..122
  \/ c \in {170, 181, 186}
  \/ c \in (192..255) \ {215, 247}

\* the UTF-8 encoding of one char
Utf8Char(c) ==
  IF c < 128 THEN <<c>>
  ELSE IF c < 2048 THEN <<192 + (c \div 64), 128 + (c % 64)>>
  ELSE IF c < 65536
       THEN <<224 + (c \div 4096), 128 + ((c \div 64) % 64), 128 + (c % 64)>>
       ELSE <<240 + (c \div 262144), 128 + ((c \div 4096) % 64),
              128 + ((c \div 64) % 64), 128 + (c % 64)>>

RECURSIVE str_as_bytes(_)
\* str::as_bytes of a text given as its chars
str_as_bytes(s) == IF s = <<>> THEN <<>> ELSE Utf8Char(s[1]) \o str_as_bytes(Tail(s))

\* impl FromStr for ChunkType.  &s.as_bytes()[0..4] panics when the text has
\* fewer than 4 bytes; copy_from_slice then copies 4 bytes into 4.
ChunkType_from_str(s) ==
  IF \A i \in 1..Len(s) : is_alphabetic(s[i])
  THEN LET b == str_as_bytes(s)
       IN IF Len(b) < 4 THEN Panic ELSE ChunkType_try_from(SubSeq(b, 1, 4))
  ELSE Err("Could not convert to string")

(* -------------------------------- Chunk ------------------------------- *)

\* the checksum of the data alone
calculate_crc_data(chunk_type, data) == checksum(data)

\* calculate_crc: the checksum of the 4 type bytes followed by the data
calculate_crc(chunk_type, data) == checksum(Cat(FromSeq(bytes(chunk_type)), data))

\* Chunk::new.  data.len() is a usize and `as u32` keeps its low 32 bits.
Chunk_new(chunk_type, data) ==
  LET crc == calculate_crc(chunk_type, data)
  IN [length |-> as_u32(VecLen(data)), chunk_type |-> chunk_type,
      data |-> data, crc |-> crc]

\* Chunk::as_bytes
as_bytes(c) ==
  Cat(Cat(Cat(FromSeq(to_be_bytes(c.length)), FromSeq(bytes(c.chunk_type))),
          c.data),
      FromSeq(to_be_bytes(c.crc)))

\* a guard that lets every buffer through
NeverTooShort(b) == FALSE

\* bytes.len() < 12
TooShort(b) == ~Leq(Num(12), VecLen(b))

RECURSIVE crc_loop(_, _, _)
\* for (i, b) in crc_bytes.iter().enumerate():
\*   crc = crc + ((*b as u32) << ((3 - i) * 8))
crc_loop(crc_bytes, i, crc) ==
  IF i = Len(crc_bytes) THEN crc
  ELSE crc_loop(crc_bytes, i + 1, Add(crc, shl(crc_bytes[i + 1], (3 - i) * 8)))

\* impl TryFrom<&Vec<u8>> for Chunk, usize being 64 bits wide.
\* read_exact fails (an io::Error, returned by `?`) when the reader holds
\* fewer than 4 more bytes; indexing a Vec by a range it does not hold panics.
Chunk_try_from(b) ==
  IF TooShort(b) THEN Err("Invalid chunk length")
  ELSE IF ~InRange(b, Zero, Num(4)) THEN Err("failed to fill whole buffer")
  ELSE IF ~InRange(b, Num(4), Num(8)) THEN Err("failed to fill whole buffer")
  ELSE
    LET l_buf == ToSeq(Slice(b, Zero, Num(4)))
        ct_buf == ToSeq(Slice(b, Num(4), Num(8)))
        length == from_be_bytes(l_buf)
        ct == ChunkType_try_from(ct_buf)
        data_terminator == Add(length, Num(8))
    IN IF ct.tag # "Ok" THEN ct
       ELSE IF ~InRange(b, data_terminator, Add(data_terminator, Num(4))) THEN Panic
       ELSE IF ~InRange(b, Num(8), data_terminator) THEN Panic
       ELSE
         LET crc_bytes == ToSeq(Slice(b, data_terminator, Add(data_terminator, Num(4))))
             data == Slice(b, Num(8), data_terminator)
             crc == crc_loop(crc_bytes, 0, Zero)
             test_crc == calculate_crc(ct.val, data)
         IN IF test_crc # crc THEN Err("CRC mismatch")
            ELSE Ok([length |-> length, chunk_type |-> ct.val,
                     data |-> data, crc |-> crc])

(* ------------------------------- inputs ------------------------------- *)

\* longest data written byte by byte
MaxData == 2
\* buffer positions 0 .. MaxFlip - 1 may have a bit flipped
MaxFlip == 15
\* a buffer may be cut to 0 .. MaxKeep bytes
MaxKeep == 13
\* longest buffer of one repeated byte
MaxRaw == 13
\* longest text handed to from_str
MaxText == 5

\* the byte values data is made of
DataBytes == {0, 255}

\* the sequences over S of length at most n
SeqsUpTo(S, n) == UNION {[1..k -> S] : k \in 0..n}

\* the number of bytes above which a length no longer fits a u32: 2^32
HugeLen == <<Base, 0>>

\* data of exactly 2^32 bytes: a few leading bytes, then zeros
HugePrefixes == {<<>>, <<255>>, <<212, 132, 9, 61>>}

HugeData == {Cat(FromSeq(p), Fill(0, Sub(HugeLen, Num(Len(p))))) : p \in HugePrefixes}

Datas == {FromSeq(d) : d \in SeqsUpTo(DataBytes, MaxData)} \cup HugeData

\* the type codes chunks are made with: "RuSt" and four bytes that are no letters
TypeCodes == {<<82, 117, 83, 116>>, <<0, 32, 255, 49>>}

ChunkTypes == {ChunkType_try_from(b).val : b \in TypeCodes}

\* buffers that come from no serialization: one byte repeated, and two
\* chunks of type "RuSt" written out by hand (no data; one zero byte of data
\* and two bytes after the chunk)
RawBuffers ==
  {Fill(x, Num(n)) : x \in DataBytes, n \in 0..MaxRaw}
  \cup {FromSeq(<<0, 0, 0, 0, 82, 117, 83, 116, 212, 132, 9, 60>>),
        FromSeq(<<0, 0, 0, 1, 82, 117, 83, 116, 0, 253, 185, 23, 3, 7, 7>>)}

\* bytes that may follow a chunk in a buffer
Trailers == {FromSeq(<<0>>), FromSeq(<<255, 255>>)}

\* the bytes of raw type codes, and the chars of texts: R u S t 1 e-acute
CodeBytes == {0, 32, 49, 82, 83, 116, 117, 255}
Chars == {82, 117, 83, 116, 49, 233}

\* byte i (from 0) of the vector v
At(v, i) == Drop(v, Num(i))[1][1]

\* v with bit k of its byte i inverted
FlipAt(v, i, k) ==
  Cat(Cat(Take(v, Num(i)), FromSeq(<<BitXor(At(v, i), 2 ^ k)>>)), Drop(v, Num(i + 1)))

(* -------------------------------- state ------------------------------- *)

VARIABLES
  chunk,   \* the Chunk last returned by Chunk::new or Chunk::try_from, if any
  buf,     \* the byte buffer at hand
  result,  \* what the last Chunk::try_from(&buf) did
  made,    \* the chunk buf was serialized from, and how that chunk came to be
  edit,    \* what was done to buf after serialization
  op,      \* the last operation
  arg,     \* the argument of the last ChunkType conversion
  ctype    \* what the last ChunkType conversion did

vars == <<chunk, buf, result, made, edit, op, arg, ctype>>

chunkVars == <<chunk, buf, result, made, edit>>
typeVars == <<arg, ctype>>

Init ==
  /\ chunk = None
  /\ buf = <<>>
  /\ result = None
  /\ made = None
  /\ edit = [kind |-> "none"]
  /\ op = "init"
  /\ arg = <<>>
  /\ ctype = None

(* ------------------------------- actions ------------------------------ *)

\* Chunk::new(chunk_type, data), the first call of a run
New(chunk_type, data) ==
  /\ op = "init"
  /\ chunk' = Some(Chunk_new(chunk_type, data))
  /\ buf' = <<>>
  /\ result' = None
  /\ made' = None
  /\ edit' = [kind |-> "none"]
  /\ op' = "new"
  /\ UNCHANGED typeVars

\* chunk.as_bytes(), of a chunk from Chunk::new or from Chunk::try_from
AsBytes ==
  /\ op \in {"new", "try_from"}
  /\ chunk.tag = "Some"
  /\ buf' = as_bytes(chunk.val)
  /\ made' = [tag |-> "Some", val |-> chunk.val, by |-> op]
  /\ edit' = [kind |-> "none"]
  /\ op' = "as_bytes"
  /\ UNCHANGED <<chunk, result>>
  /\ UNCHANGED typeVars

\* the caller inverts bit k of byte i of a serialized chunk
FlipBit(i, k) ==
  /\ op = "as_bytes"
  /\ Leq(Num(i + 1), VecLen(buf))
  /\ buf' = FlipAt(buf, i, k)
  /\ edit' = [kind |-> "flip", pos |-> i, bit |-> k]
  /\ op' = "flip"
  /\ UNCHANGED <<chunk, result, made>>
  /\ UNCHANGED typeVars

\* the caller keeps the first n bytes of a serialized chunk
Truncate(n) ==
  /\ op = "as_bytes"
  /\ ~Leq(VecLen(buf), Num(n))
  /\ buf' = Take(buf, Num(n))
  /\ edit' = [kind |-> "truncate", keep |-> n]
  /\ op' = "truncate"
  /\ UNCHANGED <<chunk, result, made>>
  /\ UNCHANGED typeVars

\* the caller puts more bytes after a serialized chunk
Extend(t) ==
  /\ op = "as_bytes"
  /\ buf' = Cat(buf, t)
  /\ edit' = [kind |-> "extend"]
  /\ op' = "extend"
  /\ UNCHANGED <<chunk, result, made>>
  /\ UNCHANGED typeVars

\* the caller starts a run with a buffer of its own
Raw(b) ==
  /\ op = "init"
  /\ buf' = b
  /\ chunk' = None
  /\ result' = None
  /\ made' = None
  /\ edit' = [kind |-> "raw"]
  /\ op' = "raw"
  /\ UNCHANGED typeVars

\* Chunk::try_from(&buf)
TryFrom ==
  /\ op \in {"as_bytes", "flip", "truncate", "extend", "raw"}
  /\ LET r == Chunk_try_from(buf)
     IN /\ result' = r
        /\ chunk' = IF r.tag = "Ok" THEN Some(r.val) ELSE None
  /\ op' = "try_from"
  /\ UNCHANGED <<buf, made, edit>>
  /\ UNCHANGED typeVars

\* ChunkType::try_from(b) for a 4-byte array b, the only call of a run
TypeTryFrom(b) ==
  /\ op = "init"
  /\ arg' = b
  /\ ctype' = ChunkType_try_from(b)
  /\ op' = "type_try_from"
  /\ UNCHANGED chunkVars

\* ChunkType::from_str(s), the only call of a run
FromStr(s) ==
  /\ op = "init"
  /\ arg' = s
  /\ ctype' = ChunkType_from_str(s)
  /\ op' = "from_str"
  /\ UNCHANGED chunkVars

Next ==
  \/ \E chunk_type \in ChunkTypes, data \in Datas : New(chunk_type, data)
  \/ AsBytes
  \/ \E i \in 0..(MaxFlip - 1), k \in 0..7 : FlipBit(i, k)
  \/ \E n \in 0..MaxKeep : Truncate(n)
  \/ \E t \in Trailers : Extend(t)
  \/ \E b \in RawBuffers : Raw(b)
  \/ TryFrom

Spec == Init /\ [][Next]_vars

NextType ==
  \/ \E b \in [1..4 -> CodeBytes] : TypeTryFrom(b)
  \/ \E s \in SeqsUpTo(Chars, MaxText) : FromStr(s)

SpecType == Init /\ [][NextType]_vars

(* ------------------------------- claims ------------------------------- *)

\* the length field a buffer of at least 4 bytes starts with
LengthField(b) == from_be_bytes(ToSeq(Take(b, Num(4))))

\* C1: parsing the serialization of Chunk::new(chunk_type, data) succeeds and
\* returns a chunk with the same length, type bytes, data and crc.
C1_RoundTrip ==
  (op = "try_from" /\ made.tag = "Some" /\ made.by = "new" /\ edit.kind = "none")
    => (result.tag = "Ok" /\ result.val = made.val)

\* C2: for a buffer of at least 12 bytes whose length field L has
\* 8 + L + 4 > buffer length, Chunk::try_from returns an error value; it
\* does not abort.
C2_BoundsSafety ==
  (/\ op = "try_from"
   /\ Leq(Num(12), VecLen(buf))
   /\ ~Leq(Add(Num(12), LengthField(buf)), VecLen(buf)))
    => result.tag = "Err"

\* C3: from_str succeeds exactly on a text of 4 chars that are all ASCII
\* letters, returning the type with those 4 bytes, and returns an error for
\* every other text.
C3_FromString ==
  op = "from_str"
    => IF Len(arg) = 4 /\ \A i \in 1..Len(arg) : arg[i] \in (65..90) \cup (97..122)
       THEN ctype = ChunkType_try_from(arg)
       ELSE ctype.tag = "Err"

\* C4: for every ChunkType, from 4 raw bytes or from a text, is_valid is true
\* exactly when bit 5 of byte 2 is clear and all four bytes are letters.
C4_IsValid ==
  (op \in {"type_try_from", "from_str"} /\ ctype.tag = "Ok")
    => LET b == bytes(ctype.val)
       IN is_valid(ctype.val)
            <=> ((b[3] \div 32) % 2 = 0 /\ \A i \in 1..4 : b[i] \in (65..90) \cup (97..122))

\* C5: after one bit of the type region or of the data region of the
\* serialization of a chunk made by Chunk::new is inverted, Chunk::try_from
\* returns the error "CRC mismatch" and no chunk.
C5_CrcSensitivity ==
  (/\ op = "try_from"
   /\ made.tag = "Some"
   /\ made.by = "new"
   /\ edit.kind = "flip"
   /\ edit.pos >= 4
   /\ Leq(Num(edit.pos + 1), Add(Num(8), VecLen(made.val.data))))
    => (result.tag = "Err" /\ result.msg = "CRC mismatch")

\* C6: every chunk returned by Chunk::new or by a successful Chunk::try_from
\* has crc equal to the CRC-32 of its 4 type bytes followed by its data.
C6_CrcInvariant ==
  (op \in {"new", "try_from"} /\ chunk.tag = "Some")
    => LET c == checksum(Cat(FromSeq(bytes(chunk.val.chunk_type)), chunk.val.data))
       IN chunk.val.crc = c

\* C6: a successful parse of a buffer holding data has happened.
C6_Witness ==
  /\ op = "try_from"
  /\ result.tag = "Ok"
  /\ chunk = Some(result.val)
  /\ chunk.val.data # <<>>

\* C7: every chunk returned by Chunk::new or by a successful Chunk::try_from
\* has length equal to the number of bytes of its data.
C7_LengthInvariant ==
  (op \in {"new", "try_from"} /\ chunk.tag = "Some")
    => chunk.val.length = VecLen(chunk.val.data)

\* C8: for every buffer shorter than 12 bytes Chunk::try_from returns the
\* error "Invalid chunk length" and no chunk.
C8_ShortBuffer ==
  (op = "try_from" /\ ~Leq(Num(12), VecLen(buf)))
    => (result = Err("Invalid chunk length") /\ chunk = None)

\* C8: a buffer of 11 bytes has been parsed.
C8_Witness ==
  /\ op = "try_from"
  /\ VecLen(buf) = Num(11)
  /\ result.tag = "Err"

\* C9: is_critical, is_public and is_reserved_bit_valid hold exactly when
\* bit 5 of byte 0, 1, 2 is clear, and is_safe_to_copy exactly when bit 5 of
\* byte 3 is set; the bytes are those the type was made from.
C9_PropertyBits ==
  (op = "type_try_from" /\ ctype.tag = "Ok")
    => LET ct == ctype.val
       IN /\ bytes(ct) = arg
          /\ is_critical(ct) <=> (arg[1] \div 32) % 2 = 0
          /\ is_public(ct) <=> (arg[2] \div 32) % 2 = 0
          /\ is_reserved_bit_valid(ct) <=> (arg[3] \div 32) % 2 = 0
          /\ is_safe_to_copy(ct) <=> (arg[4] \div 32) % 2 = 1

\* C9: the type "RuSt" has been made from its bytes: critical, not public,
\* reserved bit valid, safe to copy.
C9_Witness ==
  /\ op = "type_try_from"
  /\ arg = <<82, 117, 83, 116>>
  /\ ctype.tag = "Ok"
  /\ is_critical(ctype.val)
  /\ ~is_public(ctype.val)
  /\ is_reserved_bit_valid(ctype.val)
  /\ is_safe_to_copy(ctype.val)

\* C10: when Chunk::try_from succeeds on a buffer with length field L, the
\* serialization of the chunk has 12 + L bytes and equals the first 12 + L
\* bytes of the buffer, whatever follows them.
C10_SerializeInverse ==
  (op = "try_from" /\ result.tag = "Ok")
    => LET out == as_bytes(result.val)
           n == Add(Num(12), LengthField(buf))
       IN /\ VecLen(out) = n
          /\ Leq(n, VecLen(buf))
          /\ out = Take(buf, n)

\* C10: a buffer with bytes after the chunk has been parsed with success.
C10_Witness ==
  /\ op = "try_from"
  /\ result.tag = "Ok"
  /\ ~Leq(VecLen(buf), Add(Num(12), LengthField(buf)))

=============================================================================
